---- MODULE Spec2Model ----
(***************************************************************************)
(* Model of src/section.rs: the Section entity of the static-site          *)
(* generator, its construction (new / parse / from_file), template         *)
(* resolution, render context, all_pages_path and the Serialize impl.      *)
(*                                                                         *)
(* Strings whose characters matter (path, relative_path, permalink) are    *)
(* sequences of one-character strings; filesystem paths (PathBuf) are      *)
(* sequences of such segments.  Option<T> is <<>> (None) or <<x>> (Some).  *)
(***************************************************************************)
EXTENDS Integers, Sequences, FiniteSets, TLC

\* ---------------------------------------------------------------- bounds
MaxDepth == 2          \* directories between the content root and _index.md
MaxPages == 2          \* content files discovered directly under a section
MaxSubsections == 2    \* direct subsections attached by tree assembly
MaxNesting == 2        \* depth of subsections below the section

\* ------------------------------------------------------------ vocabulary
NoneV == <<>>
Some(x) == <<x>>

Ok(v) == [ok |-> TRUE, val |-> v]
Err(e) == [ok |-> FALSE, err |-> e]

Slash == "/"
IndexMd == <<"_", "i", "n", "d", "e", "x", ".", "m", "d">>
ContentDir == <<"c", "o", "n", "t", "e", "n", "t">>
Blog == <<"b", "l", "o", "g">>
Tech == <<"t", "e", "c", "h">>
News == <<"n", "e", "w", "s">>
DirNames == <<Blog, Tech, News>>
PageNames == <<(<<"a", ".", "m", "d">>), (<<"b", ".", "m", "d">>), (<<"c", ".", "m", "d">>)>>

\* The directory chain blog/tech/news/blog/... down to depth d
DirChain(d) == [i \in 1..d |-> DirNames[((i - 1) % Len(DirNames)) + 1]]

\* Absolute paths of index documents beneath the content root.
IndexPath(comps) == <<ContentDir>> \o comps \o <<IndexMd>>
FilePaths == {IndexPath(DirChain(d)) : d \in 0..MaxDepth}

\* FrontMatter: title, description and template are all optional.
Metas == [title : {NoneV, Some("Hello")},
          description : {Some("About")},
          template : {NoneV, Some("custom.html")}]
DefaultMeta == [title |-> NoneV, description |-> NoneV, template |-> NoneV]

\* Raw document text: a front-matter block (absent when malformed) and a body.
Malformed == [front_matter |-> NoneV, body |-> "body"]
Document(m) == [front_matter |-> Some(m), body |-> "body"]
Contents == {Malformed} \cup {Document(m) : m \in Metas}

Configs == {[base_url |-> <<"u">>]}

Call(f, a) == [fn |-> f, arg |-> a]
Count(tr, f) == Cardinality({i \in DOMAIN tr : tr[i].fn = f})

\* ------------------------------------------------------- collaborators
\* front_matter::split_content
split_content(file_path, content) ==
    IF content.front_matter = NoneV
    THEN Err([kind |-> "FrontMatterParseError", path |-> file_path])
    ELSE Ok(<<content.front_matter[1], content.body>>)

\* utils::find_content_components
RECURSIVE AfterContent(_)
AfterContent(segs) ==
    IF segs = <<>> THEN <<>>
    ELSE IF Head(segs) = ContentDir THEN Tail(segs)
    ELSE AfterContent(Tail(segs))

PathParent(p) == SubSeq(p, 1, Len(p) - 1)

find_content_components(file_path) == AfterContent(PathParent(file_path))

EndsWithSlash(s) == Len(s) > 0 /\ s[Len(s)] = Slash

\* Config::make_permalink
make_permalink(config, path) ==
    IF EndsWithSlash(config.base_url)
    THEN config.base_url \o path
    ELSE config.base_url \o <<Slash>> \o path

\* utils::read_file, as the outcome the filesystem gives for a path
ReadOutcomes(path) ==
    {Err([kind |-> "FileReadError", path |-> path])} \cup {Ok(c) : c \in Contents}

\* ------------------------------------------------------------- strings
\* [String]::join("/")
RECURSIVE join(_)
join(parts) ==
    IF parts = <<>> THEN <<>>
    ELSE IF Len(parts) = 1 THEN parts[1]
    ELSE parts[1] \o <<Slash>> \o join(Tail(parts))

\* str::split('/'): one piece more than there are separators
RECURSIVE SplitFrom(_, _, _)
SplitFrom(s, cur, acc) ==
    IF s = <<>> THEN Append(acc, cur)
    ELSE IF Head(s) = Slash THEN SplitFrom(Tail(s), <<>>, Append(acc, cur))
    ELSE SplitFrom(Tail(s), Append(cur, Head(s)), acc)

split(s) == SplitFrom(s, <<>>, <<>>)

\* ------------------------------------------------------------- Section
new(file_path, meta) ==
    [file_path |-> file_path,
     relative_path |-> <<>>,
     parent_path |-> PathParent(file_path),
     components |-> <<>>,
     path |-> <<>>,
     permalink |-> <<>>,
     meta |-> meta,
     pages |-> <<>>,
     ignored_pages |-> <<>>,
     subsections |-> <<>>]

\* relative_path formatted from the joined components without the root case
relative_path_of_joined(components) ==
    join(components) \o <<Slash>> \o IndexMd

relative_path_of(components) ==
    IF components = <<>> THEN IndexMd
    ELSE join(components) \o <<Slash>> \o IndexMd

\* parse joining the path from the file's segments instead of the components
parse_path_from_file(file_path, content, config) ==
    LET sc == split_content(file_path, content)
        c1 == Call("split_content", <<file_path, content>>)
    IN  IF ~sc.ok
        THEN [ret |-> Err(sc.err), trace |-> <<c1>>]
        ELSE LET s0 == new(file_path, sc.val[1])
                 s1 == [s0 EXCEPT !.components = find_content_components(s0.file_path)]
                 s2 == [s1 EXCEPT !.path = join(AfterContent(s1.file_path))]
                 s3 == [s2 EXCEPT !.permalink = make_permalink(config, s2.path)]
                 s4 == [s3 EXCEPT !.relative_path = relative_path_of(s3.components)]
             IN  [ret |-> Ok(s4),
                  trace |-> <<c1,
                              Call("find_content_components", s0.file_path),
                              Call("make_permalink", s2.path)>>]

\* parse falling back to default front matter when split_content fails
parse_default_on_error(file_path, content, config) ==
    LET sc == split_content(file_path, content)
        c1 == Call("split_content", <<file_path, content>>)
        meta == IF sc.ok THEN sc.val[1] ELSE DefaultMeta
        s0 == new(file_path, meta)
        s1 == [s0 EXCEPT !.components = find_content_components(s0.file_path)]
        s2 == [s1 EXCEPT !.path = join(s1.components)]
        s3 == [s2 EXCEPT !.permalink = make_permalink(config, s2.path)]
        s4 == [s3 EXCEPT !.relative_path = relative_path_of(s3.components)]
    IN  [ret |-> Ok(s4),
         trace |-> <<c1,
                     Call("find_content_components", s0.file_path),
                     Call("make_permalink", s2.path)>>]

\* Section::parse: the returned Result and the collaborator calls it made
parse(file_path, content, config) ==
    LET sc == split_content(file_path, content)
        c1 == Call("split_content", <<file_path, content>>)
    IN  IF ~sc.ok
        THEN [ret |-> Err(sc.err), trace |-> <<c1>>]
        ELSE LET s0 == new(file_path, sc.val[1])
                 s1 == [s0 EXCEPT !.components = find_content_components(s0.file_path)]
                 s2 == [s1 EXCEPT !.path = join(s1.components)]
                 s3 == [s2 EXCEPT !.permalink = make_permalink(config, s2.path)]
                 s4 == [s3 EXCEPT !.relative_path = relative_path_of(s3.components)]
             IN  [ret |-> Ok(s4),
                  trace |-> <<c1,
                              Call("find_content_components", s0.file_path),
                              Call("make_permalink", s2.path)>>]

\* from_file parsing an empty document when the read fails
from_file_empty_on_error(path, read, config) ==
    LET c0 == Call("read_file", path)
        p == parse(path, IF read.ok THEN read.val ELSE Malformed, config)
    IN  [ret |-> p.ret, trace |-> <<c0>> \o p.trace]

\* Section::from_file: read, then parse what was read
from_file(path, read, config) ==
    LET c0 == Call("read_file", path)
    IN  IF ~read.ok
        THEN [ret |-> Err(read.err), trace |-> <<c0>>]
        ELSE LET p == parse(path, read.val, config)
             IN  [ret |-> p.ret, trace |-> <<c0>> \o p.trace]

\* Is this the index section?
is_index(self) == self.components = <<>>

\* template resolution letting the root default win over meta.template
get_template_name_root_first(self) ==
    IF is_index(self) THEN "index.html"
    ELSE IF self.meta.template # NoneV THEN self.meta.template[1]
    ELSE "section.html"

get_template_name(self) ==
    IF self.meta.template # NoneV
    THEN self.meta.template[1]
    ELSE IF is_index(self) THEN "index.html"
    ELSE "section.html"

\* all_pages_path extending with pages twice
all_pages_path_pages_twice(self) ==
    LET paths0 == <<>>
        paths1 == paths0 \o [i \in 1..Len(self.pages) |-> self.pages[i].file_path]
        paths2 == paths1 \o [i \in 1..Len(self.pages) |-> self.pages[i].file_path]
    IN  paths2

all_pages_path(self) ==
    LET paths0 == <<>>
        paths1 == paths0 \o [i \in 1..Len(self.pages) |-> self.pages[i].file_path]
        paths2 == paths1 \o [i \in 1..Len(self.ignored_pages) |-> self.ignored_pages[i].file_path]
    IN  paths2

\* Page (page.rs) is opaque here apart from file_path
Page(file_path) == [file_path |-> file_path]
serialize_page(p) == [page |-> p.file_path]

\* serialize_field on the struct serializer
serialize_field(state, key, value) ==
    [k \in DOMAIN state \cup {key} |-> IF k = key THEN value ELSE state[k]]

EmptyMap == [k \in {} |-> <<>>]

RECURSIVE serialize(_)

\* serialization exposing components as a seventh field
serialize_with_components(self) ==
    LET st0 == EmptyMap
        st1 == serialize_field(st0, "title", self.meta.title)
        st2 == serialize_field(st1, "description", self.meta.description)
        st3 == serialize_field(st2, "path", <<Slash>> \o self.path)
        st4 == serialize_field(st3, "permalink", self.permalink)
        st5 == serialize_field(st4, "pages",
                   [i \in 1..Len(self.pages) |-> serialize_page(self.pages[i])])
        st6 == serialize_field(st5, "subsections",
                   [i \in 1..Len(self.subsections) |-> serialize(self.subsections[i])])
        st7 == serialize_field(st6, "components", self.components)
    IN  st7

\* impl Serialize for Section
serialize(self) ==
    LET st0 == EmptyMap
        st1 == serialize_field(st0, "title", self.meta.title)
        st2 == serialize_field(st1, "description", self.meta.description)
        st3 == serialize_field(st2, "path", <<Slash>> \o self.path)
        st4 == serialize_field(st3, "permalink", self.permalink)
        st5 == serialize_field(st4, "pages",
                   [i \in 1..Len(self.pages) |-> serialize_page(self.pages[i])])
        st6 == serialize_field(st5, "subsections",
                   [i \in 1..Len(self.subsections) |-> serialize(self.subsections[i])])
    IN  st6

\* Tera: the set of template names it has loaded; rendering a name it does
\* not know fails, otherwise the output is the text of that template
AllTemplates == {"index.html", "section.html", "custom.html"}
Teras == {AllTemplates, {"index.html"}}

tera_render(tera, tpl_name, context) ==
    IF tpl_name \in tera
    THEN Ok([rendered |-> tpl_name])
    ELSE Err([kind |-> "TemplateRenderError", template |-> tpl_name])

\* ResultExt::chain_err
chain_err(r, msg) ==
    IF r.ok THEN r ELSE Err([kind |-> "Msg", msg |-> msg, cause |-> r.err])

\* render_html adding sections to the context of every Section
render_html_always_sections(self, sections, tera, config) ==
    LET tpl_name == get_template_name(self)
        c0 == EmptyMap
        c1 == serialize_field(c0, "config", config)
        c2 == serialize_field(c1, "section", serialize(self))
        c3 == serialize_field(c2, "current_url", self.permalink)
        c4 == serialize_field(c3, "current_path", self.path)
        context == serialize_field(c4, "sections",
                       [i \in 1..Len(sections) |-> serialize(sections[i])])
        r == tera_render(tera, tpl_name, context)
    IN  [ret |-> chain_err(r, <<"Failed to render section", self.file_path>>),
         trace |-> <<Call("render", <<tpl_name, context>>)>>]

\* render_html returning empty output when the engine fails
render_html_swallow(self, sections, tera, config) ==
    LET tpl_name == get_template_name(self)
        c0 == EmptyMap
        c1 == serialize_field(c0, "config", config)
        c2 == serialize_field(c1, "section", serialize(self))
        c3 == serialize_field(c2, "current_url", self.permalink)
        c4 == serialize_field(c3, "current_path", self.path)
        context == IF is_index(self)
                   THEN serialize_field(c4, "sections",
                            [i \in 1..Len(sections) |-> serialize(sections[i])])
                   ELSE c4
        r == tera_render(tera, tpl_name, context)
    IN  [ret |-> IF r.ok THEN r ELSE Ok([rendered |-> ""]),
         trace |-> <<Call("render", <<tpl_name, context>>)>>]

\* Section::render_html: the returned Result and the engine calls it made
render_html(self, sections, tera, config) ==
    LET tpl_name == get_template_name(self)
        c0 == EmptyMap
        c1 == serialize_field(c0, "config", config)
        c2 == serialize_field(c1, "section", serialize(self))
        c3 == serialize_field(c2, "current_url", self.permalink)
        c4 == serialize_field(c3, "current_path", self.path)
        context == IF is_index(self)
                   THEN serialize_field(c4, "sections",
                            [i \in 1..Len(sections) |-> serialize(sections[i])])
                   ELSE c4
        r == tera_render(tera, tpl_name, context)
    IN  [ret |-> chain_err(r, <<"Failed to render section", self.file_path>>),
         trace |-> <<Call("render", <<tpl_name, context>>)>>]

\* ------------------------------------------------------- tree assembly
Range(q) == {q[i] : i \in DOMAIN q}
Min(a, b) == IF a < b THEN a ELSE b

\* The first k content files found directly under the section's directory
PageFilesOf(s, k) == [i \in 1..k |-> Page(s.parent_path \o <<PageNames[i]>>)]

\* pages / ignored_pages: the sortable and the unsortable discovered files,
\* each file in exactly one of the two
PagePartitions(s) ==
    UNION {{<<SelectSeq(PageFilesOf(s, k), LAMBDA p : p \in P),
              SelectSeq(PageFilesOf(s, k), LAMBDA p : p \notin P)>> :
                P \in SUBSET Range(PageFilesOf(s, k))} :
           k \in 0..MaxPages}

populate_pages(s, pp) == [s EXCEPT !.pages = pp[1], !.ignored_pages = pp[2]]

populate_subsections(s, subs) == [s EXCEPT !.subsections = subs]

ChildMeta == [title |-> Some("Child"), description |-> NoneV, template |-> NoneV]

\* The Section tree assembly attaches for directory `dir`: parsed from its
\* own _index.md, holding its own page, and carrying `nest` further levels
\* of `width` subsections each.
RECURSIVE Subtree(_, _, _, _)
Subtree(dir, cfg, nest, width) ==
    LET parsed == parse(dir \o <<IndexMd>>, Document(ChildMeta), cfg).ret.val
        base == populate_pages(parsed, <<(<<Page(dir \o <<PageNames[1]>>)>>), <<>>>>)
    IN  IF nest = 0 THEN base
        ELSE populate_subsections(base,
                 [i \in 1..width |-> Subtree(dir \o <<DirNames[i]>>, cfg, nest - 1, width)])

\* The subsection lists of a section at `dir`: up to MaxSubsections
\* subdirectories, nested up to MaxNesting levels
SubsectionLists(dir, cfg) ==
    {<<>>} \cup
    {[i \in 1..width |-> Subtree(dir \o <<DirNames[i]>>, cfg, nest, width)] :
        width \in 1..Min(MaxSubsections, Len(DirNames)), nest \in 0..(MaxNesting - 1)}

\* The lists of top-level sections a caller passes to render_html
TopLevelLists(cfg) ==
    LET top(n) == parse(IndexPath(<<n>>), Document(DefaultMeta), cfg).ret.val
    IN  {<<>>, <<top(Blog), top(Tech)>>}

\* ---------------------------------------------------------------- state
VARIABLES
    config,     \* the site-wide Config
    section,    \* Option<Section>: the Section being processed
    phase,      \* "none", "bare" (from new), "constructed" (from parse or
                \* from_file), "paged", "assembled"
    op,         \* the last operation called
    args,       \* its arguments
    ret,        \* what it returned
    trace       \* the collaborator calls it made, in order

vars == <<config, section, phase, op, args, ret, trace>>

Init ==
    /\ config \in Configs
    /\ section = NoneV
    /\ phase = "none"
    /\ op = "none"
    /\ args = <<>>
    /\ ret = <<>>
    /\ trace = <<>>

\* A constructor's outcome becomes the Section being processed; a document
\* is taken up only when no Section is in progress
Constructed(r) ==
    /\ section' = IF r.ret.ok THEN Some(r.ret.val) ELSE NoneV
    /\ phase' = IF r.ret.ok THEN "constructed" ELSE "none"
    /\ ret' = r.ret
    /\ trace' = r.trace

New ==
    \E file_path \in FilePaths, meta \in Metas :
        /\ phase = "none"
        /\ section' = Some(new(file_path, meta))
        /\ phase' = "bare"
        /\ op' = "new"
        /\ args' = <<file_path, meta>>
        /\ ret' = new(file_path, meta)
        /\ trace' = <<>>
        /\ UNCHANGED config

Parse ==
    \E file_path \in FilePaths, content \in Contents :
        /\ phase = "none"
        /\ op' = "parse"
        /\ args' = <<file_path, content>>
        /\ Constructed(parse(file_path, content, config))
        /\ UNCHANGED config

FromFile ==
    \E path \in FilePaths :
        \E read \in ReadOutcomes(path) :
            /\ phase = "none"
            /\ op' = "from_file"
            /\ args' = <<path, read>>
            /\ Constructed(from_file(path, read, config))
            /\ UNCHANGED config

PopulatePages ==
    /\ phase = "constructed"
    /\ \E pp \in PagePartitions(section[1]) :
        section' = Some(populate_pages(section[1], pp))
    /\ args' = <<>>
    /\ phase' = "paged"
    /\ op' = "populate_pages"
    /\ ret' = <<>>
    /\ trace' = <<>>
    /\ UNCHANGED config

PopulateSubsections ==
    /\ phase = "paged"
    /\ \E subs \in SubsectionLists(section[1].parent_path, config) :
        section' = Some(populate_subsections(section[1], subs))
    /\ args' = <<>>
    /\ phase' = "assembled"
    /\ op' = "populate_subsections"
    /\ ret' = <<>>
    /\ trace' = <<>>
    /\ UNCHANGED config

\* The render phase: every operation takes &self
GetTemplateName ==
    /\ phase = "assembled"
    /\ op' = "get_template_name"
    /\ args' = <<>>
    /\ ret' = get_template_name(section[1])
    /\ trace' = <<>>
    /\ UNCHANGED <<config, section, phase>>

IsIndex ==
    /\ phase = "assembled"
    /\ op' = "is_index"
    /\ args' = <<>>
    /\ ret' = is_index(section[1])
    /\ trace' = <<>>
    /\ UNCHANGED <<config, section, phase>>

\* all_pages_path draining pages out of the Section
AllPagesPath_drain ==
    /\ phase = "assembled"
    /\ op' = "all_pages_path"
    /\ args' = <<>>
    /\ ret' = all_pages_path(section[1])
    /\ trace' = <<>>
    /\ section' = Some([section[1] EXCEPT !.pages = <<>>, !.ignored_pages = <<>>])
    /\ UNCHANGED <<config, phase>>

AllPagesPath ==
    /\ phase = "assembled"
    /\ op' = "all_pages_path"
    /\ args' = <<>>
    /\ ret' = all_pages_path(section[1])
    /\ trace' = <<>>
    /\ UNCHANGED <<config, section, phase>>

RenderHtml ==
    /\ phase = "assembled"
    /\ \E sections \in TopLevelLists(config), tera \in Teras :
        LET r == render_html(section[1], sections, tera, config)
        IN  /\ args' = <<sections, tera>>
            /\ ret' = r.ret
            /\ trace' = r.trace
    /\ op' = "render_html"
    /\ UNCHANGED <<config, section, phase>>

Serialize ==
    /\ phase = "assembled"
    /\ op' = "serialize"
    /\ args' = <<>>
    /\ ret' = serialize(section[1])
    /\ trace' = <<>>
    /\ UNCHANGED <<config, section, phase>>

Next ==
    \/ New
    \/ Parse
    \/ FromFile
    \/ PopulatePages
    \/ PopulateSubsections
    \/ GetTemplateName
    \/ IsIndex
    \/ AllPagesPath
    \/ RenderHtml
    \/ Serialize

Spec == Init /\ [][Next]_vars

\* ------------------------------------------------------------ properties
RenderOps == {"get_template_name", "is_index", "all_pages_path", "render_html", "serialize"}

HasSection == section # NoneV
Self == section[1]

\* C1: get_template_name returns meta.template verbatim when it is set, root
\* or not; otherwise "index.html" when components is empty and
\* "section.html" when it is not.
C1_TemplatePriority ==
    op = "get_template_name" =>
        /\ ret \in STRING
        /\ Self.meta.template # NoneV => ret = Self.meta.template[1]
        /\ (Self.meta.template = NoneV /\ Self.components = <<>>) => ret = "index.html"
        /\ (Self.meta.template = NoneV /\ Self.components # <<>>) => ret = "section.html"

\* the root section carries an explicit template and that name was returned
C1_Witness ==
    /\ op = "get_template_name"
    /\ Self.components = <<>>
    /\ Self.meta.template = Some("custom.html")
    /\ ret = "custom.html"

DerivedRelativePath(components) ==
    IF components = <<>> THEN IndexMd ELSE join(components) \o <<Slash>> \o IndexMd

RECURSIVE RelativePathDerivable(_)
RelativePathDerivable(s) ==
    /\ s.relative_path = DerivedRelativePath(s.components)
    /\ \A i \in DOMAIN s.subsections : RelativePathDerivable(s.subsections[i])

\* C2 as stated: every constructed Section, Section::new's included, has
\* relative_path "_index.md" when components is empty and
\* join(components, "/") + "/_index.md" otherwise.
C2_Original ==
    HasSection => RelativePathDerivable(Self)

\* C2 amended: every Section returned by Section::parse or Section::from_file
\* (and every subsection, which tree assembly takes from them) has
\* relative_path "_index.md" when components is empty and
\* join(components, "/") + "/_index.md" otherwise.
C2_RelativePathOfParsed ==
    (HasSection /\ phase # "bare") => RelativePathDerivable(Self)

\* from_file returned a Section two directories below the content root
C2_Witness ==
    /\ op = "from_file"
    /\ ret.ok
    /\ Len(Self.components) = 2
    /\ Self.relative_path = Blog \o <<Slash>> \o Tech \o <<Slash>> \o IndexMd

\* C3 as stated: for every Section returned by parse, path is components
\* joined by "/" and splitting path on "/" gives components back, the root
\* section (components empty, path empty) included.
C3_Original ==
    (op \in {"parse", "from_file"} /\ ret.ok) =>
        /\ ret.val.path = join(ret.val.components)
        /\ split(ret.val.path) = ret.val.components

\* C3 amended: for every Section returned by parse, path is components joined
\* by "/"; splitting path on "/" gives components back when components is
\* non-empty, and for the root section path is the empty string, whose split
\* is the one empty piece and not the empty sequence.
C3_PathRoundTrip ==
    (op \in {"parse", "from_file"} /\ ret.ok) =>
        /\ ret.val.path = join(ret.val.components)
        /\ ret.val.components # <<>> => split(ret.val.path) = ret.val.components
        /\ ret.val.components = <<>> => (ret.val.path = <<>> /\ split(ret.val.path) = <<(<<>>)>>)

\* parse returned the Section of content/blog/tech/_index.md
C3_Witness ==
    /\ op = "parse"
    /\ ret.ok
    /\ ret.val.components = <<Blog, Tech>>
    /\ ret.val.path = Blog \o <<Slash>> \o Tech

PathsOf(pages) == {pages[i].file_path : i \in DOMAIN pages}

\* C4: all_pages_path returns exactly the file paths of pages and of
\* ignored_pages, each of them once.
C4_AllPagesPathIsUnion ==
    op = "all_pages_path" =>
        /\ Range(ret) = PathsOf(Self.pages) \cup PathsOf(Self.ignored_pages)
        /\ \A i, j \in DOMAIN ret : ret[i] = ret[j] => i = j

\* a section with a sorted and an ignored page was asked for its paths
C4_Witness ==
    /\ op = "all_pages_path"
    /\ Len(Self.pages) = 1
    /\ Len(Self.ignored_pages) = 1
    /\ Len(ret) = 2

ViewKeys == {"title", "description", "path", "permalink", "pages", "subsections"}
HiddenKeys == {"file_path", "parent_path", "components", "relative_path", "ignored_pages"}

RECURSIVE IsViewOf(_, _)
IsViewOf(view, s) ==
    /\ DOMAIN view = ViewKeys
    /\ DOMAIN view \cap HiddenKeys = {}
    /\ view["title"] = s.meta.title
    /\ view["description"] = s.meta.description
    /\ view["path"] = <<Slash>> \o s.path
    /\ view["permalink"] = s.permalink
    /\ Len(view["pages"]) = Len(s.pages)
    /\ \A i \in DOMAIN s.pages : view["pages"][i] = serialize_page(s.pages[i])
    /\ Len(view["subsections"]) = Len(s.subsections)
    /\ \A i \in DOMAIN s.subsections : IsViewOf(view["subsections"][i], s.subsections[i])

\* C5: the serialized view of a Section has exactly the keys title,
\* description, path, permalink, pages and subsections, its path is "/"
\* followed by the Section's path, none of file_path, parent_path,
\* components, relative_path, ignored_pages appears, and every subsection,
\* at every depth, is serialized the same way.
C5_SerializedView ==
    op = "serialize" => IsViewOf(ret, Self)

\* a section holding a subsection that holds a subsection was serialized
C5_Witness ==
    /\ op = "serialize"
    /\ Self.subsections # <<>>
    /\ Self.subsections[1].subsections # <<>>
    /\ Self.ignored_pages # <<>>

RenderCall == trace[1]
RenderedName == RenderCall.arg[1]
RenderedContext == RenderCall.arg[2]

\* C6: the context render_html hands to the engine holds config, section,
\* current_url (the permalink) and current_path (the path); it holds
\* sections, the caller's list, exactly when components is empty; the engine
\* is called with the name get_template_name returns.
C6_RenderContext ==
    op = "render_html" =>
        /\ Len(trace) >= 1
        /\ RenderCall.fn = "render"
        /\ RenderedName = get_template_name(Self)
        /\ {"config", "section", "current_url", "current_path"} \subseteq DOMAIN RenderedContext
        /\ DOMAIN RenderedContext \subseteq
               {"config", "section", "current_url", "current_path", "sections"}
        /\ RenderedContext["config"] = config
        /\ IsViewOf(RenderedContext["section"], Self)
        /\ RenderedContext["current_url"] = Self.permalink
        /\ RenderedContext["current_path"] = Self.path
        /\ ("sections" \in DOMAIN RenderedContext) <=> (Self.components = <<>>)
        /\ Self.components = <<>> =>
               /\ Len(RenderedContext["sections"]) = Len(args[1])
               /\ \A i \in DOMAIN args[1] :
                      IsViewOf(RenderedContext["sections"][i], args[1][i])

\* the root section was rendered with a non-empty list of top-level sections
C6_Witness ==
    /\ op = "render_html"
    /\ Self.components = <<>>
    /\ Len(args[1]) = 2
    /\ Len(RenderedContext["sections"]) = 2

\* C7: when the front-matter parser fails, parse returns that failure, which
\* names the file path, and no Section is produced nor permalink computed;
\* when the parser succeeds parse returns a Section.
C7_ParseFailure ==
    op = "parse" =>
        LET parsed == split_content(args[1], args[2])
        IN  /\ ~parsed.ok =>
                /\ ret = Err(parsed.err)
                /\ ret.err.kind = "FrontMatterParseError"
                /\ ret.err.path = args[1]
                /\ section = NoneV
                /\ Count(trace, "make_permalink") = 0
                /\ Count(trace, "find_content_components") = 0
            /\ parsed.ok =>
                /\ ret.ok
                /\ section = Some(ret.val)
                /\ ret.val.file_path = args[1]

\* parse was given a document with malformed front matter
C7_Witness ==
    /\ op = "parse"
    /\ args[2] = Malformed
    /\ ~ret.ok

\* C8: when the engine fails, render_html returns an error that wraps the
\* engine's failure and names the Section's file_path; the engine is called
\* exactly once per render_html call.
C8_RenderFailure ==
    op = "render_html" =>
        /\ Count(trace, "render") = 1
        /\ Len(trace) = 1
        /\ LET engine == tera_render(args[2], RenderedName, RenderedContext)
           IN  /\ ~engine.ok =>
                   /\ ~ret.ok
                   /\ ret.err.cause = engine.err
                   /\ ret.err.msg[2] = Self.file_path
               /\ engine.ok => ret = engine

\* the engine did not know the template of the section being rendered
C8_Witness ==
    /\ op = "render_html"
    /\ get_template_name(Self) \notin args[2]
    /\ ~ret.ok

\* C9: from_file reads first: a read failure is returned as it is, without
\* calling the front-matter parser and without a Section, and is not a parse
\* failure; after a successful read the result is that of
\* parse(path, content read, config).
C9_FromFile ==
    op = "from_file" =>
        /\ trace[1] = Call("read_file", args[1])
        /\ ~args[2].ok =>
            /\ ret = Err(args[2].err)
            /\ ret.err.kind = "FileReadError"
            /\ ret.err.kind # "FrontMatterParseError"
            /\ Count(trace, "split_content") = 0
            /\ section = NoneV
        /\ args[2].ok =>
            /\ ret = parse(args[1], args[2].val, config).ret
            /\ Tail(trace) = parse(args[1], args[2].val, config).trace

\* the file could not be read
C9_Witness ==
    /\ op = "from_file"
    /\ ~args[2].ok
    /\ ~ret.ok
    /\ Len(trace) = 1

\* C10: a Section comes out of parse with empty pages, ignored_pages and
\* subsections, and no render-phase operation (get_template_name, is_index,
\* all_pages_path, render_html, serialization), succeeding or failing,
\* changes any field of it.
C10_RenderPhaseReadsOnly ==
    [][/\ phase' = "constructed" =>
            /\ section'[1].pages = <<>>
            /\ section'[1].ignored_pages = <<>>
            /\ section'[1].subsections = <<>>
       /\ op' \in RenderOps => (section' = section /\ phase' = phase)]_vars

\* a populated section was read by a render-phase operation that failed
C10_Witness ==
    /\ op = "render_html"
    /\ ~ret.ok
    /\ phase = "assembled"
    /\ Self.pages # <<>>
    /\ Self.ignored_pages # <<>>
    /\ Self.subsections # <<>>

====
